---- MODULE Spec2Model ----
(***************************************************************************)
(* Model of components/script/timers.rs: the one-shot timer queue          *)
(* (OneshotTimers), the timeout/interval registry (JsTimers) and the       *)
(* external timer scheduler they talk to over a channel.                   *)
(*                                                                         *)
(* The script thread is single-threaded.  fire_timer runs callback bodies  *)
(* synchronously; a callback body is foreign code that may call back into  *)
(* the timer API, so fire_timer is split at the callback boundary: pc says *)
(* whether the thread is idle, inside a callback body, or has panicked.    *)
(***************************************************************************)
EXTENDS Integers, Sequences, FiniteSets, TLC

\* ------------------------------------------------------------------ bounds
MaxTime == 2
MaxHandle == 3
MaxSuspends == 2
MaxInflight == 2
MaxDuration == 1
ChainMaxHandle == 7
ChainMaxTime == 1
ChainMaxQueue == 1
LiveMaxTime == 2
LiveMaxGap == 1
LiveMaxHandle == 2
LiveMaxSuspends == 1
NestMaxTime == 4
NestMaxHandle == 9

\* ------------------------------------------------------------------ constants
\* Option::None of suspended_since, and "no callback running"
None == -1
\* lower bound of clamp_duration for deeply nested timers
ClampLowerBound == 4
\* nesting level above which clamp_duration applies the lower bound
ClampNesting == 5

VARIABLES
    now,                  \* precise_time_ms(): the wall clock, in ms
    inflight,             \* TimerEventRequests the scheduler has not answered yet
    next_timer_handle,    \* OneshotTimers.next_timer_handle
    timers,               \* OneshotTimers.timers, the Vec in its order
    suspended_since,      \* OneshotTimers.suspended_since (None or a time)
    suspension_offset,    \* OneshotTimers.suspension_offset
    expected_event_id,    \* OneshotTimers.expected_event_id
    js_next_timer_handle, \* JsTimers.next_timer_handle
    active_timers,        \* JsTimers.active_timers: JsTimerHandle -> oneshot handle
    nesting_level,        \* JsTimers.nesting_level
    pc,                   \* "idle", "callback" (inside fire_timer) or "panicked"
    timers_to_run,        \* fire_timer's local Vec: the rest of the batch
    running,              \* the OneshotTimer whose callback body is executing
    panicked,             \* which assertion or unwrap failed ("" if none)
    \* history variables (not read by the program)
    delivered,            \* notifications delivered: [id, target, accepted]
    invoked,              \* callbacks invoked so far, in order
    unscheduled,          \* one-shot handles unschedule_callback removed
    cleared,              \* JS handles clear_timeout_or_interval removed
    self_cleared,         \* JS handles cleared from inside their own callback
    g_active_ms,          \* wall-clock ms spent not suspended so far
    g_suspends,           \* number of suspend() calls so far
    fire_first_new        \* next_timer_handle when the current batch was fixed

vars == <<now, inflight, next_timer_handle, timers, suspended_since,
          suspension_offset, expected_event_id, js_next_timer_handle,
          active_timers, nesting_level, pc, timers_to_run, running, panicked,
          delivered, invoked, unscheduled, cleared, self_cleared,
          g_active_ms, g_suspends, fire_first_new>>

progVars == <<next_timer_handle, timers, suspended_since, suspension_offset,
              expected_event_id, js_next_timer_handle, active_timers,
              nesting_level, pc, timers_to_run, running, panicked>>

histVars == <<invoked, unscheduled, cleared, self_cleared, fire_first_new>>

\* ------------------------------------------------------------------ helpers
Max(a, b) == IF a >= b THEN a ELSE b

\* u64::saturating_sub
SaturatingSub(a, b) == IF a >= b THEN a - b ELSE 0

Last(s) == s[Len(s)]

Front(s) == SubSeq(s, 1, Len(s) - 1)

\* Vec::insert(index, element) with a 0-based index
VecInsert(s, index, e) == SubSeq(s, 1, index) \o <<e>> \o SubSeq(s, index + 1, Len(s))

\* Vec::retain(|t| t.handle != handle)
Retain(s, handle) == SelectSeq(s, LAMBDA t : t.handle # handle)

Handles(s) == {s[i].handle : i \in 1..Len(s)}

\* HashMap::remove and HashMap::insert on a function
MapRemove(m, k) == [x \in DOMAIN m \ {k} |-> m[x]]

MapPut(m, k, v) == [x \in DOMAIN m \cup {k} |-> IF x = k THEN v ELSE m[x]]

\* ------------------------------------------------------------------ callbacks
\* OneshotTimerCallback::XhrTimeout: the payload is opaque to the queue
XhrTimeout == [type |-> "XhrTimeout", handle |-> 0, is_interval |-> FALSE,
               nesting_level |-> 0, duration |-> 0, g_timeout |-> 0, g_depth |-> 0]

\* OneshotTimerCallback::JsTimer(JsTimerTask).  History fields: g_timeout is
\* the raw i32 timeout the application asked for, g_depth the registry's
\* nesting_level read when the task was armed.
JsTimerTask(handle, is_interval, nesting, duration, timeout) ==
    [type |-> "JsTimer", handle |-> handle, is_interval |-> is_interval,
     nesting_level |-> nesting, duration |-> duration, g_timeout |-> timeout,
     g_depth |-> 0]

NoTimer == [handle |-> 0, scheduled_for |-> 0, callback |-> XhrTimeout,
            g_duration |-> 0, g_start |-> 0]

\* ------------------------------------------------------------------ ordering
\* cmp with the tie on handles not reversed
cmp_no_tie_reverse(a, b) ==
    IF a.scheduled_for # b.scheduled_for
    THEN (IF a.scheduled_for < b.scheduled_for THEN "Greater" ELSE "Less")
    ELSE IF a.handle < b.handle THEN "Less"
    ELSE IF a.handle > b.handle THEN "Greater" ELSE "Equal"

\* impl Ord for OneshotTimer: the later deadline sorts first and, among equal
\* deadlines, the higher handle
cmp(a, b) ==
    IF a.scheduled_for # b.scheduled_for
    THEN (IF a.scheduled_for < b.scheduled_for THEN "Greater" ELSE "Less")
    ELSE IF a.handle < b.handle THEN "Greater"
    ELSE IF a.handle > b.handle THEN "Less" ELSE "Equal"

\* slice::binary_search(&timer).err().unwrap(): the 0-based insertion index
\* (Ok is impossible: handles are unique, so no element compares Equal)
RECURSIVE binary_search(_, _, _, _)
binary_search(s, t, lo, hi) ==
    IF lo >= hi THEN lo
    ELSE LET mid == lo + ((hi - lo) \div 2)
         IN IF cmp(s[mid + 1], t) = "Less"
            THEN binary_search(s, t, mid + 1, hi)
            ELSE binary_search(s, t, lo, mid)

\* ------------------------------------------------------------------ structs
\* The OneshotTimers struct as a value; scheduler_chan is the channel to the
\* scheduler, i.e. the requests in flight.
Self == [next_timer_handle |-> next_timer_handle,
         timers            |-> timers,
         suspended_since   |-> suspended_since,
         suspension_offset |-> suspension_offset,
         expected_event_id |-> expected_event_id,
         scheduler_chan    |-> inflight]

\* The JsTimers struct as a value
Js == [next_timer_handle |-> js_next_timer_handle,
       active_timers     |-> active_timers,
       nesting_level     |-> nesting_level]

\* ------------------------------------------------------------------ OneshotTimers
\* is_next_timer that looks at the first element of the Vec, the latest
\* deadline, instead of the last
is_next_timer_first(self, handle) ==
    self.timers # <<>> /\ Head(self.timers).handle = handle

\* is_next_timer
is_next_timer(self, handle) ==
    self.timers # <<>> /\ Last(self.timers).handle = handle

\* base_time: the logical time
base_time(self) ==
    IF self.suspended_since # None
    THEN self.suspended_since - self.suspension_offset
    ELSE now - self.suspension_offset

\* invalidate_expected_event_id; the id it returns is the new expected_event_id
invalidate_expected_event_id(self) ==
    [self EXCEPT !.expected_event_id = @ + 1]

\* A TimerEventRequest.  The message carries (id, delay); the scheduler may
\* answer from now + delay on, which is kept as due.  target is the handle of
\* the entry the request was issued for (history, not part of the message).
TimerEventRequest(id, delay, timer) ==
    [id |-> id, due |-> now + delay, target |-> timer.handle]

\* schedule_timer_call that does not look at suspended_since
schedule_timer_call_while_suspended(self) ==
    IF self.timers = <<>> THEN self
    ELSE LET timer == Last(self.timers)
             s1 == invalidate_expected_event_id(self)
             delay == SaturatingSub(timer.scheduled_for, now)
         IN [s1 EXCEPT !.scheduler_chan =
                @ \cup {TimerEventRequest(s1.expected_event_id, delay, timer)}]

\* schedule_timer_call that sends the current id instead of a fresh one
schedule_timer_call_same_id(self) ==
    IF self.suspended_since # None THEN self
    ELSE IF self.timers = <<>> THEN self
    ELSE LET timer == Last(self.timers)
             delay == SaturatingSub(timer.scheduled_for, now)
         IN [self EXCEPT !.scheduler_chan =
                @ \cup {TimerEventRequest(self.expected_event_id, delay, timer)}]

\* schedule_timer_call
schedule_timer_call(self) ==
    IF self.suspended_since # None THEN self
    ELSE IF self.timers = <<>> THEN self
    ELSE LET timer == Last(self.timers)
             s1 == invalidate_expected_event_id(self)
             delay == SaturatingSub(timer.scheduled_for, now)
         IN [s1 EXCEPT !.scheduler_chan =
                @ \cup {TimerEventRequest(s1.expected_event_id, delay, timer)}]

\* The OneshotTimer schedule_callback builds.  History fields: g_duration the
\* duration asked for, g_start the wall-clock ms spent not suspended up to
\* that moment.
OneshotTimer(self, handle, callback, duration) ==
    [handle        |-> handle,
     scheduled_for |-> base_time(self) + duration,
     callback      |-> callback,
     g_duration    |-> duration,
     g_start       |-> g_active_ms]

\* schedule_callback that does not advance next_timer_handle
schedule_callback_reuse_handle(self, callback, duration) ==
    LET new_handle == self.next_timer_handle
        timer == OneshotTimer(self, new_handle, callback, duration)
        insertion_index == binary_search(self.timers, timer, 0, Len(self.timers))
        s1 == [self EXCEPT !.timers = VecInsert(@, insertion_index, timer)]
    IN IF is_next_timer(s1, new_handle) THEN schedule_timer_call(s1) ELSE s1

\* schedule_callback; the handle it returns is self.next_timer_handle
schedule_callback(self, callback, duration) ==
    LET new_handle == self.next_timer_handle
        timer == OneshotTimer(self, new_handle, callback, duration)
        insertion_index == binary_search(self.timers, timer, 0, Len(self.timers))
        s1 == [self EXCEPT !.next_timer_handle = new_handle + 1,
                           !.timers = VecInsert(@, insertion_index, timer)]
    IN IF is_next_timer(s1, new_handle) THEN schedule_timer_call(s1) ELSE s1

\* unschedule_callback that re-arms whether or not the entry was the next
unschedule_callback_always_rearm(self, handle) ==
    LET s1 == [self EXCEPT !.timers = Retain(@, handle)]
    IN schedule_timer_call(invalidate_expected_event_id(s1))

\* unschedule_callback that re-arms without invalidating the id first
unschedule_callback_no_invalidate(self, handle) ==
    LET was_next == is_next_timer(self, handle)
        s1 == [self EXCEPT !.timers = Retain(@, handle)]
    IN IF was_next THEN schedule_timer_call(s1) ELSE s1

\* unschedule_callback that leaves the entry in the Vec
unschedule_callback_keep(self, handle) ==
    LET was_next == is_next_timer(self, handle)
    IN IF was_next
       THEN schedule_timer_call(invalidate_expected_event_id(self))
       ELSE self

\* unschedule_callback
unschedule_callback(self, handle) ==
    LET was_next == is_next_timer(self, handle)
        s1 == [self EXCEPT !.timers = Retain(@, handle)]
    IN IF was_next
       THEN schedule_timer_call(invalidate_expected_event_id(s1))
       ELSE s1

\* fire_timer that asserts "not suspended" before it compares the ids
fire_timer_check_assert_first(self, id) ==
    IF self.suspended_since # None THEN "assert_not_suspended"
    ELSE IF self.expected_event_id # id THEN "ignored"
    ELSE IF self.timers = <<>> THEN "unwrap_none"
    ELSE IF ~(base_time(self) >= Last(self.timers).scheduled_for)
    THEN "assert_due"
    ELSE "run"

\* fire_timer up to the second assertion: what the call does with this id
fire_timer_check(self, id) ==
    IF self.expected_event_id # id THEN "ignored"
    ELSE IF self.suspended_since # None THEN "assert_not_suspended"
    ELSE IF self.timers = <<>> THEN "unwrap_none"
    ELSE IF ~(base_time(self) >= Last(self.timers).scheduled_for)
    THEN "assert_due"
    ELSE "run"

\* fire_timer's loop: pop every entry due at base into timers_to_run
RECURSIVE pop_due(_, _, _)
pop_due(tms, run, base) ==
    IF tms = <<>> \/ Last(tms).scheduled_for > base
    THEN [timers |-> tms, timers_to_run |-> run]
    ELSE pop_due(Front(tms), Append(run, Last(tms)), base)

\* A batch that takes up the entries that became due while callbacks ran
remaining_batch_repop(rest, self) ==
    rest \o pop_due(self.timers, <<>>, base_time(self)).timers_to_run

\* `for timer in timers_to_run`: the batch is the Vec filled before the first
\* callback ran, whatever the queue holds by now
remaining_batch(rest, self) == rest

\* suspend, past its assertion
suspend(self) ==
    invalidate_expected_event_id([self EXCEPT !.suspended_since = now])

\* resume that does not add the suspended time to suspension_offset
resume_no_offset(self) ==
    schedule_timer_call([self EXCEPT !.suspended_since = None])

\* resume, past its assertion
resume(self) ==
    LET additional_offset == now - self.suspended_since
    IN schedule_timer_call([self EXCEPT
           !.suspension_offset = @ + additional_offset,
           !.suspended_since = None])

\* ------------------------------------------------------------------ JsTimers
\* clamp_duration that applies the lower bound from nesting level 5 on
clamp_duration_from_5(nesting, unclamped) ==
    Max(IF nesting >= ClampNesting THEN ClampLowerBound ELSE 0, unclamped)

\* clamp_duration
clamp_duration(nesting, unclamped) ==
    Max(IF nesting > ClampNesting THEN ClampLowerBound ELSE 0, unclamped)

\* initialize_and_schedule
initialize_and_schedule(self, js, task) ==
    LET level == js.nesting_level
        duration == clamp_duration(level, task.duration)
        task1 == [task EXCEPT !.nesting_level = level + 1, !.g_depth = level]
        oneshot_handle == self.next_timer_handle
    IN [self |-> schedule_callback(self, task1, duration),
        js   |-> [js EXCEPT !.active_timers = MapPut(@, task.handle, oneshot_handle)]]

\* set_timeout_or_interval; the handle it returns is js.next_timer_handle
set_timeout_or_interval(self, js, timeout, is_interval) ==
    LET new_handle == js.next_timer_handle
        task == JsTimerTask(new_handle, is_interval, 0, Max(0, timeout), timeout)
    IN initialize_and_schedule(self,
                               [js EXCEPT !.next_timer_handle = new_handle + 1],
                               task)

\* clear_timeout_or_interval
clear_timeout_or_interval(self, js, handle) ==
    IF handle \in DOMAIN js.active_timers
    THEN [self |-> unschedule_callback(self, js.active_timers[handle]),
          js   |-> [js EXCEPT !.active_timers = MapRemove(@, handle)]]
    ELSE [self |-> self, js |-> js]

\* Rescheduling that does not look at active_timers
rearm_always(js, task) == task.is_interval

\* JsTimerTask::invoke step 4.3: is the task rescheduled after its callback?
rearm(js, task) ==
    task.is_interval /\ task.handle \in DOMAIN js.active_timers

\* ------------------------------------------------------------------ state machine
Durations == 0..MaxDuration

\* i32 timeouts handed to setTimeout / setInterval, a negative one included
Timeouts == -1..MaxDuration

TypeOK ==
    /\ now \in Nat
    /\ pc \in {"idle", "callback", "panicked"}
    /\ next_timer_handle \in Nat
    /\ expected_event_id \in Nat

\* OneshotTimers::new and JsTimers::new
Init ==
    /\ now = 0
    /\ inflight = {}
    /\ next_timer_handle = 1
    /\ timers = <<>>
    /\ suspended_since = None
    /\ suspension_offset = 0
    /\ expected_event_id = 0
    /\ js_next_timer_handle = 1
    /\ active_timers = [h \in {} |-> 0]
    /\ nesting_level = 0
    /\ pc = "idle"
    /\ timers_to_run = <<>>
    /\ running = NoTimer
    /\ panicked = ""
    /\ delivered = {}
    /\ invoked = <<>>
    /\ unscheduled = {}
    /\ cleared = {}
    /\ self_cleared = {}
    /\ g_active_ms = 0
    /\ g_suspends = 0
    /\ fire_first_new = 0

\* Write the two structs back to the variables
Commit(self, js) ==
    /\ next_timer_handle' = self.next_timer_handle
    /\ timers' = self.timers
    /\ suspended_since' = self.suspended_since
    /\ suspension_offset' = self.suspension_offset
    /\ expected_event_id' = self.expected_event_id
    /\ inflight' = self.scheduler_chan
    /\ js_next_timer_handle' = js.next_timer_handle
    /\ active_timers' = js.active_timers
    /\ nesting_level' = js.nesting_level

\* A panic unwinds the script thread: nothing runs afterwards
Panic(reason) ==
    /\ pc' = "panicked"
    /\ panicked' = reason
    /\ UNCHANGED <<next_timer_handle, timers, suspended_since, suspension_offset,
                   expected_event_id, js_next_timer_handle, active_timers,
                   nesting_level, timers_to_run, running>>

\* The API may be called from the event loop or from inside a callback body
Callable == pc \in {"idle", "callback"}

\* The wall clock advances; it also does while a callback body runs
Tick ==
    /\ Callable
    /\ now' = now + 1
    /\ g_active_ms' = IF suspended_since = None THEN g_active_ms + 1
                      ELSE g_active_ms
    /\ UNCHANGED <<inflight, progVars, delivered, histVars, g_suspends>>

\* schedule_callback(XhrTimeout, duration, source)
ScheduleCallback(duration) ==
    /\ Callable
    /\ Commit(schedule_callback(Self, XhrTimeout, duration), Js)
    /\ UNCHANGED <<now, pc, timers_to_run, running, panicked, delivered,
                   histVars, g_active_ms, g_suspends>>

\* unschedule_callback(handle)
UnscheduleCallback(handle) ==
    /\ Callable
    /\ Commit(unschedule_callback(Self, handle), Js)
    /\ unscheduled' = IF handle \in Handles(timers)
                      THEN unscheduled \cup {handle} ELSE unscheduled
    /\ UNCHANGED <<now, pc, timers_to_run, running, panicked, delivered,
                   invoked, cleared, self_cleared, fire_first_new, g_active_ms, g_suspends>>

\* set_timeout_or_interval(global, callback, arguments, timeout, is_interval, source)
SetTimeoutOrInterval(timeout, is_interval) ==
    /\ Callable
    /\ LET r == set_timeout_or_interval(Self, Js, timeout, is_interval)
       IN Commit(r.self, r.js)
    /\ UNCHANGED <<now, pc, timers_to_run, running, panicked, delivered,
                   invoked, unscheduled, cleared, self_cleared, fire_first_new,
                   g_active_ms, g_suspends>>

\* clear_timeout_or_interval(global, handle)
ClearTimeoutOrInterval(handle) ==
    /\ Callable
    /\ LET r == clear_timeout_or_interval(Self, Js, handle)
       IN Commit(r.self, r.js)
    /\ LET known == handle \in DOMAIN active_timers
       IN /\ cleared' = IF known THEN cleared \cup {handle} ELSE cleared
          /\ self_cleared' =
                 IF known /\ pc = "callback" /\ running.callback.type = "JsTimer"
                          /\ running.callback.handle = handle
                 THEN self_cleared \cup {handle} ELSE self_cleared
          /\ unscheduled' =
                 IF known /\ active_timers[handle] \in Handles(timers)
                 THEN unscheduled \cup {active_timers[handle]} ELSE unscheduled
    /\ UNCHANGED <<now, pc, timers_to_run, running, panicked, delivered,
                   invoked, fire_first_new, g_active_ms, g_suspends>>

\* suspend() without its assertion
Suspend_no_assert ==
    /\ pc = "idle"
    /\ Commit(suspend(Self), Js)
    /\ UNCHANGED <<pc, timers_to_run, running, panicked>>
    /\ g_suspends' = g_suspends + 1
    /\ UNCHANGED <<now, delivered, histVars, g_active_ms>>

\* suspend()
Suspend ==
    /\ pc = "idle"
    /\ IF suspended_since # None
       THEN /\ Panic("suspend_assert")
            /\ UNCHANGED inflight
       ELSE /\ Commit(suspend(Self), Js)
            /\ UNCHANGED <<pc, timers_to_run, running, panicked>>
    /\ g_suspends' = g_suspends + 1
    /\ UNCHANGED <<now, delivered, histVars, g_active_ms>>

\* resume()
Resume ==
    /\ pc = "idle"
    /\ IF suspended_since = None
       THEN /\ Panic("resume_assert")
            /\ UNCHANGED inflight
       ELSE /\ Commit(resume(Self), Js)
            /\ UNCHANGED <<pc, timers_to_run, running, panicked>>
    /\ UNCHANGED <<now, delivered, histVars, g_active_ms, g_suspends>>

\* The record of one invocation: which entry ran, for which JS timer
Invocation(timer) ==
    [handle |-> timer.handle, scheduled_for |-> timer.scheduled_for,
     js |-> timer.callback.handle, is_interval |-> timer.callback.is_interval,
     g_due |-> timer.g_start + timer.g_duration,
     g_depth |-> timer.callback.g_depth]

\* fire_timer from `for timer in timers_to_run` on: run the next callback of
\* the batch up to its body (JsTimerTask::invoke sets the nesting level
\* first), or, the batch done, schedule_timer_call and return.
Continue(self, js, batch) ==
    IF batch = <<>>
    THEN /\ Commit(schedule_timer_call(self), js)
         /\ pc' = "idle"
         /\ running' = NoTimer
         /\ timers_to_run' = <<>>
         /\ invoked' = invoked
    ELSE LET timer == Head(batch)
             task == timer.callback
         IN /\ Commit(self, IF task.type = "JsTimer"
                            THEN [js EXCEPT !.nesting_level = task.nesting_level]
                            ELSE js)
            /\ pc' = "callback"
            /\ running' = timer
            /\ timers_to_run' = Tail(batch)
            /\ invoked' = Append(invoked, Invocation(timer))

\* The scheduler answers request r: fire_timer(r.id)
Deliver(r) ==
    /\ pc = "idle"
    /\ r \in inflight
    /\ r.due <= now
    /\ LET self == [Self EXCEPT !.scheduler_chan = inflight \ {r}]
           check == fire_timer_check(self, r.id)
       IN /\ delivered' = delivered \cup
                 {[id |-> r.id, target |-> r.target, accepted |-> check # "ignored"]}
          /\ IF check = "ignored"
             THEN /\ Commit(self, Js)
                  /\ UNCHANGED <<pc, timers_to_run, running, panicked, invoked,
                                 fire_first_new>>
             ELSE IF check # "run"
             THEN /\ Panic(check)
                  /\ inflight' = self.scheduler_chan
                  /\ UNCHANGED <<invoked, fire_first_new>>
             ELSE LET popped == pop_due(self.timers, <<>>, base_time(self))
                  IN /\ Continue([self EXCEPT !.timers = popped.timers], Js,
                                 popped.timers_to_run)
                     /\ fire_first_new' = next_timer_handle
                     /\ panicked' = panicked
    /\ UNCHANGED <<now, unscheduled, cleared, self_cleared, g_active_ms, g_suspends>>

\* The scheduler (or the channel) delivers once more a notification it has
\* delivered before: fire_timer(d.id) a second time
DeliverDuplicate(d) ==
    /\ pc = "idle"
    /\ d \in delivered
    /\ LET check == fire_timer_check(Self, d.id)
       IN /\ delivered' = delivered \cup
                 {[id |-> d.id, target |-> d.target, accepted |-> check # "ignored"]}
          /\ IF check = "ignored"
             THEN /\ Commit(Self, Js)
                  /\ UNCHANGED <<pc, timers_to_run, running, panicked, invoked,
                                 fire_first_new>>
             ELSE IF check # "run"
             THEN /\ Panic(check)
                  /\ UNCHANGED <<inflight, invoked, fire_first_new>>
             ELSE LET popped == pop_due(timers, <<>>, base_time(Self))
                  IN /\ Continue([Self EXCEPT !.timers = popped.timers], Js,
                                 popped.timers_to_run)
                     /\ fire_first_new' = next_timer_handle
                     /\ panicked' = panicked
    /\ UNCHANGED <<now, unscheduled, cleared, self_cleared, g_active_ms, g_suspends>>

\* Will the running callback be rescheduled when its body returns?
RearmPending ==
    running.callback.type = "JsTimer" /\ rearm(Js, running.callback)

\* JsTimerTask::invoke that reschedules the interval before it resets the
\* nesting level
CallbackReturn_rearm_nested ==
    /\ pc = "callback"
    /\ LET task == running.callback
           r == IF task.type = "JsTimer" /\ rearm(Js, task)
                THEN initialize_and_schedule(Self, Js, task)
                ELSE [self |-> Self, js |-> Js]
           js0 == IF task.type = "JsTimer"
                  THEN [r.js EXCEPT !.nesting_level = 0] ELSE r.js
       IN Continue(r.self, js0, remaining_batch(timers_to_run, r.self))
    /\ UNCHANGED <<now, panicked, delivered, unscheduled, cleared, self_cleared,
                   fire_first_new, g_active_ms, g_suspends>>

\* The running callback body returns: the rest of JsTimerTask::invoke (reset
\* the nesting level, reschedule an interval), then on with fire_timer
CallbackReturn ==
    /\ pc = "callback"
    /\ LET task == running.callback
           js0 == IF task.type = "JsTimer" THEN [Js EXCEPT !.nesting_level = 0] ELSE Js
           r == IF task.type = "JsTimer" /\ rearm(js0, task)
                THEN initialize_and_schedule(Self, js0, task)
                ELSE [self |-> Self, js |-> js0]
       IN Continue(r.self, r.js, remaining_batch(timers_to_run, r.self))
    /\ UNCHANGED <<now, panicked, delivered, unscheduled, cleared, self_cleared,
                   fire_first_new, g_active_ms, g_suspends>>

\* The requests in flight stay within the bound
InflightBounded == Cardinality(inflight') <= MaxInflight

\* The queue under its own API: schedule_callback, unschedule_callback,
\* suspend, resume and the scheduler's notifications, with callback bodies
\* that call schedule_callback and unschedule_callback themselves.  The
\* event loop pairs suspend and resume.
Next ==
    \/ (now < MaxTime /\ Tick)
    \/ (next_timer_handle <= MaxHandle /\ \E d \in Durations : ScheduleCallback(d))
    \/ \E h \in 1..MaxHandle : UnscheduleCallback(h)
    \/ (g_suspends < MaxSuspends /\ suspended_since = None /\ Suspend)
    \/ (suspended_since # None /\ Resume)
    \/ \E r \in inflight : Deliver(r)
    \/ CallbackReturn

Spec == Init /\ [][Next /\ InflightBounded]_vars

\* The queue with an event loop that calls suspend and resume in any order
NextMisuse ==
    \/ (now < MaxTime /\ Tick)
    \/ (next_timer_handle <= MaxHandle /\ \E d \in Durations : ScheduleCallback(d))
    \/ \E h \in 1..MaxHandle : UnscheduleCallback(h)
    \/ (g_suspends < MaxSuspends /\ Suspend)
    \/ Resume
    \/ \E r \in inflight : Deliver(r)
    \/ CallbackReturn

SpecMisuse == Init /\ [][NextMisuse /\ InflightBounded]_vars

\* Chains of nested timeouts and intervals, with time enough for a timer
\* that got the 4 ms lower bound to fire
NestTimeouts == {-1, 0}

\* The clock of the nesting specification: callback bodies take no time and
\* the scheduler answers a request as soon as it is due, so time passes only
\* while the event loop waits for a request that is not due yet
NestTick ==
    /\ pc = "idle"
    /\ inflight # {}
    /\ \A r \in inflight : r.due > now
    /\ Tick

NextNest ==
    \/ (now < NestMaxTime /\ NestTick)
    \/ (next_timer_handle <= NestMaxHandle /\ Len(timers) < ChainMaxQueue
        /\ \E t \in NestTimeouts, i \in BOOLEAN : SetTimeoutOrInterval(t, i))
    \/ \E r \in inflight : Deliver(r)
    \/ ((RearmPending => next_timer_handle <= NestMaxHandle) /\ CallbackReturn)

SpecNest == Init /\ [][NextNest]_vars

\* The wall clock of the liveness specification: it advances until logical
\* time has reached LiveMaxTime, and by at most LiveMaxGap per suspension
LiveTick ==
    /\ IF suspended_since = None
       THEN base_time(Self) < LiveMaxTime
       ELSE now - suspended_since < LiveMaxGap
    /\ Tick

\* The queue with deadlines that the bounded clock can reach
NextLive ==
    \/ LiveTick
    \/ (next_timer_handle <= LiveMaxHandle
        /\ \E d \in Durations : (base_time(Self) + d <= LiveMaxTime
                                 /\ ScheduleCallback(d)))
    \/ \E h \in 1..LiveMaxHandle : UnscheduleCallback(h)
    \/ (g_suspends < LiveMaxSuspends /\ suspended_since = None /\ Suspend)
    \/ (suspended_since # None /\ Resume)
    \/ \E r \in inflight : Deliver(r)
    \/ CallbackReturn

\* The scheduler answers every request, the clock advances, a callback body
\* returns, and every suspend() is followed by a resume()
Fairness ==
    /\ WF_vars(LiveTick)
    /\ WF_vars(\E r \in inflight : Deliver(r))
    /\ WF_vars(CallbackReturn)
    /\ WF_vars(suspended_since # None /\ Resume)

SpecLive == Init /\ [][NextLive]_vars /\ Fairness

\* The queue with a scheduler that may deliver a notification twice
NextDup ==
    \/ Next
    \/ \E d \in delivered : DeliverDuplicate(d)

SpecDup == Init /\ [][NextDup /\ InflightBounded]_vars

\* The registry on top of the queue: setTimeout, setInterval and
\* clearTimeout / clearInterval from the event loop and from callback bodies.
NextJs ==
    \/ (now < MaxTime /\ Tick)
    \/ (next_timer_handle <= MaxHandle
        /\ \E t \in Timeouts, i \in BOOLEAN : SetTimeoutOrInterval(t, i))
    \/ \E h \in 1..MaxHandle : ClearTimeoutOrInterval(h)
    \/ \E r \in inflight : Deliver(r)
    \/ ((RearmPending => next_timer_handle <= MaxHandle) /\ CallbackReturn)

SpecJs == Init /\ [][NextJs /\ InflightBounded]_vars

\* Is one-shot handle h free for a direct unschedule_callback?  The registry
\* keeps the handles of its own entries to itself; other callers (XHR) hold
\* the handles schedule_callback gave them, which may have fired since.
NotOfRegistry(h) ==
    \A i \in 1..Len(timers) :
        timers[i].handle = h => timers[i].callback.type = "XhrTimeout"

\* Both layers at work on one queue: XHR timeouts next to JS timers
NextCancel ==
    \/ NextJs
    \/ (next_timer_handle <= MaxHandle /\ \E d \in Durations : ScheduleCallback(d))
    \/ \E h \in 1..MaxHandle : (NotOfRegistry(h) /\ UnscheduleCallback(h))

SpecCancel == Init /\ [][NextCancel /\ InflightBounded]_vars

\* Chains of nested timeouts, deep enough for clamp_duration's lower bound
ChainTimeouts == {-1, 0, ClampLowerBound + 1}

NextChain ==
    \/ (now < ChainMaxTime /\ Tick)
    \/ (next_timer_handle <= ChainMaxHandle /\ Len(timers) < ChainMaxQueue
        /\ \E t \in ChainTimeouts : SetTimeoutOrInterval(t, FALSE))
    \/ \E r \in inflight : Deliver(r)
    \/ CallbackReturn

SpecChain == Init /\ [][NextChain]_vars

\* ------------------------------------------------------------------ claims
\* Is invocation a before invocation b in (deadline, handle) order?
Before(a, b) ==
    \/ a.scheduled_for < b.scheduled_for
    \/ (a.scheduled_for = b.scheduled_for /\ a.handle < b.handle)

\* C1: the callbacks fire_timer invokes run in non-decreasing order of absolute
\* deadline, and entries with equal deadlines run in registration order
\* (lower one-shot handle first).
C1_InvokedInDeadlineOrder ==
    \A i, j \in 1..Len(invoked) : i < j => Before(invoked[i], invoked[j])

\* A (longer duration), then B and C (equal shorter durations) were scheduled
\* at time 0; one fire_timer call ran them as B, C, A.
C1_Witness ==
    /\ Len(invoked) = 3
    /\ [i \in 1..3 |-> invoked[i].handle] = <<2, 3, 1>>
    /\ [i \in 1..3 |-> invoked[i].scheduled_for] = <<0, 0, 1>>
    /\ fire_first_new = 4
    /\ Cardinality({d \in delivered : d.accepted}) = 1

\* C2: fire_timer(id) with an id other than expected_event_id changes nothing:
\* the entries, expected_event_id, the suspension state and the registry stay
\* as they are, no callback runs, no request is sent, nothing panics.
C2_StaleFireIsNoOp ==
    [][\A r \in inflight :
          (r.id # expected_event_id /\ Deliver(r))
          => /\ UNCHANGED progVars
             /\ UNCHANGED invoked
             /\ inflight' = inflight \ {r}]_vars

\* The queue is suspended and holds an entry, and the notification that the
\* suspend made stale has been delivered and dropped.
C2_Witness ==
    /\ suspended_since # None
    /\ timers # <<>>
    /\ pc = "idle"
    /\ \E d \in delivered : ~d.accepted /\ d.id = expected_event_id - 1

\* C3: once unschedule_callback(h) has removed entry h from the queue, no
\* notification, issued before the cancel or after it, gets h's callback
\* invoked.
C3_UnscheduledNeverInvoked ==
    \A i \in 1..Len(invoked) : invoked[i].handle \notin unscheduled

\* Entry 1 was scheduled first and armed request 1; it was cancelled, and
\* request 1 arrived afterwards and was dropped.
C3_Witness ==
    /\ 1 \in unscheduled
    /\ expected_event_id = 2
    /\ next_timer_handle = 2
    /\ [id |-> 1, target |-> 1, accepted |-> FALSE] \in delivered

\* C5: at most one request in flight carries expected_event_id; every request
\* schedule_timer_call sends has an id above that of every request sent
\* before; expected_event_id never decreases.
C5_OneLiveRequest ==
    /\ [](Cardinality({r \in inflight : r.id = expected_event_id}) <= 1)
    /\ [][/\ \A r \in inflight' \ inflight :
                /\ \A q \in inflight : r.id > q.id
                /\ \A d \in delivered : r.id > d.id
          /\ expected_event_id' >= expected_event_id]_vars

\* Two requests are in flight: a superseded one and the live one.
C5_Witness ==
    /\ \E r \in inflight : r.id = expected_event_id
    /\ \E r \in inflight : r.id < expected_event_id

\* C6: with a scheduler that answers only requests that were sent, once each
\* and not before their delay, neither assertion of fire_timer ever fails.
C6_FireAssertionsHold ==
    panicked \notin {"assert_not_suspended", "assert_due", "unwrap_none"}

\* The parts of C6, one per assertion
C6_NotSuspendedHolds == panicked # "assert_not_suspended"

C6_QueueNotEmpty == panicked # "unwrap_none"

\* C7: an entry runs only once the wall-clock time since it was scheduled,
\* less the time spent suspended since, has reached its duration, i.e. once
\* logical time has reached its deadline; suspensions do not change the order
\* in which entries run.
C7_NoEarlyFireAcrossSuspension ==
    /\ pc = "callback" =>
          /\ g_active_ms - running.g_start >= running.g_duration
          /\ base_time(Self) >= running.scheduled_for
    /\ \A i, j \in 1..Len(invoked) : i < j =>
          \/ invoked[i].g_due < invoked[j].g_due
          \/ (invoked[i].g_due = invoked[j].g_due
              /\ invoked[i].handle < invoked[j].handle)

\* Entry 1, scheduled first, armed request 1; the queue was then suspended
\* for a while, which made request 1 stale; entry 1 runs after the resume.
C7_Witness ==
    /\ pc = "callback"
    /\ running.handle = 1
    /\ running.g_duration = 1
    /\ suspension_offset >= 1
    /\ [id |-> 1, target |-> 1, accepted |-> FALSE] \in delivered

\* C8: an entry scheduled by a callback during a fire_timer call is not run
\* by that call: the batch holds only entries older than the call, and the
\* new entry stays in the queue (unless cancelled) while the call lasts.
C8_BatchIsFixed ==
    pc = "callback" =>
       /\ running.handle < fire_first_new
       /\ \A i \in 1..Len(timers_to_run) : timers_to_run[i].handle < fire_first_new
       /\ \A h \in fire_first_new..(next_timer_handle - 1) :
             h \in Handles(timers) \/ h \in unscheduled

\* A zero-duration interval timer ran as part of a batch and was re-armed;
\* its new entry is due at once, yet it stays in the queue while the next
\* callback of the batch runs.
C8_Witness ==
    /\ pc = "callback"
    /\ Len(invoked) >= 2
    /\ invoked[Len(invoked) - 1].handle < fire_first_new
    /\ \E i \in 1..Len(timers) :
          /\ timers[i].handle >= fire_first_new
          /\ timers[i].scheduled_for <= base_time(Self)
          /\ timers[i].g_duration = 0
          /\ timers[i].callback.is_interval
          /\ timers[i].callback.handle = invoked[Len(invoked) - 1].js

\* Number of invocations of JS timer h so far
InvCount(h) == Cardinality({i \in 1..Len(invoked) : invoked[i].js = h})

\* The entries that are still to run: queued, or in the current batch
Pending == {timers[i] : i \in 1..Len(timers)}
           \cup {timers_to_run[i] : i \in 1..Len(timers_to_run)}

\* C4: once clear_timeout_or_interval(handle) has returned, the callback
\* registered under that handle is not invoked any more.  (A callback that is
\* running may clear its own handle; that is no later invocation.)
C4_ClearedNeverInvoked ==
    (pc = "callback" /\ running.callback.type = "JsTimer"
        /\ running.callback.handle \in cleared)
    => running.callback.handle \in self_cleared

\* C9: each firing of an interval timer uses a new one-shot handle, while the
\* application handle stays mapped to the newest one-shot entry; once the
\* handle is cleared during one of its own callback executions the callback
\* is not invoked again and no one-shot entry of it stays pending.
C9_IntervalRepeats ==
    /\ [](/\ \A i, j \in 1..Len(invoked) :
                (i < j /\ invoked[i].js # 0 /\ invoked[i].js = invoked[j].js)
                => invoked[i].handle < invoked[j].handle
          /\ \A e \in Pending :
                (e.callback.type = "JsTimer" /\ e.callback.is_interval
                    /\ e.callback.handle \in DOMAIN active_timers)
                => active_timers[e.callback.handle] = e.handle
          /\ \A h \in DOMAIN active_timers :
                /\ \A i \in 1..Len(invoked) :
                      invoked[i].js = h => invoked[i].handle <= active_timers[h]
                /\ (pc = "idle" /\ \E i \in 1..Len(invoked) :
                                      invoked[i].js = h /\ invoked[i].is_interval)
                   => \E e \in Pending : /\ e.handle = active_timers[h]
                                         /\ e.callback.handle = h
                                         /\ e.callback.is_interval
          /\ \A h \in self_cleared : \A e \in Pending : e.callback.handle # h)
    /\ [][\A h \in self_cleared : InvCount(h)' = InvCount(h)]_vars

\* An interval timer has run twice, on two one-shot entries, and is armed on a
\* third.
C9_WitnessRepeats ==
    /\ pc = "idle"
    /\ 1 \in DOMAIN active_timers
    /\ InvCount(1) = 2
    /\ active_timers[1] = 3

\* An interval timer cleared itself during its second execution, and the
\* batch and a later notification have been processed since.
C9_Witness ==
    /\ pc = "idle"
    /\ 1 \in self_cleared
    /\ InvCount(1) = 2
    /\ timers = <<>>
    /\ Cardinality({d \in delivered : d.accepted}) >= 2

\* The JS timer entries that exist: queued, in the batch, or running
JsEntries ==
    {e \in Pending \cup (IF pc = "callback" THEN {running} ELSE {}) :
        e.callback.type = "JsTimer"}

\* C10: a registration made while a timer callback runs sees a nesting depth
\* of 1 + the depth at which the running timer was armed, and depth 0 outside
\* callbacks; the effective delay of a timer is max(4, requested) when armed
\* at a depth above 5 and max(0, requested) otherwise, so in a chain of
\* zero-duration timeouts the timers armed at depths 0..5 get delay 0 and the
\* deeper ones 4 ms.
C10_NestingClamp ==
    /\ pc = "idle" => nesting_level = 0
    /\ (pc = "callback" /\ running.callback.type = "JsTimer")
       => nesting_level = running.callback.g_depth + 1
    /\ \A e \in JsEntries :
          LET requested == e.callback.g_timeout
              depth == e.callback.g_depth
              delay == e.scheduled_for - e.g_start
          IN /\ e.g_duration = delay
             /\ delay = IF depth > 5 THEN Max(4, requested) ELSE Max(0, requested)
             /\ (requested = 0 /\ depth <= 5) => delay = 0
             /\ depth > 5 => delay >= 4
             /\ requested < 0 => delay = (IF depth > 5 THEN 4 ELSE 0)

\* Six timeouts have run, each registered by the one before it; the sixth
\* registered a seventh with duration 0 at depth 6, which got a delay of 4.
C10_Witness ==
    /\ Len(invoked) = 6
    /\ \A i \in 1..6 : invoked[i].js = i
    /\ \E e \in JsEntries :
          /\ e.callback.handle = 7
          /\ e.callback.g_depth = 6
          /\ e.callback.g_timeout = 0
          /\ e.scheduled_for - e.g_start = 4
    /\ \E e \in JsEntries : e.callback.g_depth = 5 /\ e.g_duration = 0
\* C11: a notification id that fire_timer has accepted once is not accepted
\* again: a second delivery of it is dropped as stale, it runs no callback
\* and does not panic, whether the first fire left entries in the queue or
\* emptied it.
C11_DuplicateIsDiscarded ==
    [][\A d \in delivered :
          (d.accepted /\ DeliverDuplicate(d))
          => /\ UNCHANGED progVars
             /\ UNCHANGED invoked
             /\ UNCHANGED inflight]_vars

\* The part of C11 that holds: the first fire left entries in the queue, so
\* fire_timer's closing schedule_timer_call moved expected_event_id on
C11_DuplicateDiscardedIfQueueLeft ==
    [][\A d \in delivered :
          (d.accepted /\ timers # <<>> /\ suspended_since = None
              /\ DeliverDuplicate(d))
          => /\ UNCHANGED progVars
             /\ UNCHANGED invoked
             /\ UNCHANGED inflight]_vars
\* Steps that can move the earliest deadline: schedule_callback put the new
\* entry at the head of the queue, unschedule_callback removed the head,
\* suspend, resume
MovesEarliest ==
    \/ /\ next_timer_handle' = next_timer_handle + 1
       /\ timers' # <<>>
       /\ Last(timers').handle = next_timer_handle
    \/ /\ timers # <<>>
       /\ pc' = pc
       /\ Last(timers).handle \notin Handles(timers')
    \/ (suspended_since = None /\ suspended_since' # None)
    \/ (suspended_since # None /\ suspended_since' = None)

\* C12: after a step that can move the earliest deadline, every request sent
\* before it carries an id below expected_event_id, and as the id never
\* decreases such a request is dropped when it arrives; after scheduling one
\* entry and cancelling it before any fire the queue is empty and no request
\* in flight is valid.
C12_EarlierRequestsStale ==
    /\ [][MovesEarliest => \A r \in inflight : r.id < expected_event_id']_vars
    /\ [][expected_event_id' >= expected_event_id]_vars
    /\ [](\A r \in inflight : r.id <= expected_event_id)
    /\ []((next_timer_handle = 2 /\ unscheduled = {1} /\ invoked = <<>>)
          => /\ timers = <<>>
             /\ \A r \in inflight : r.id # expected_event_id)

\* A was scheduled and cancelled before any fire; the request sent for A is
\* still in flight and is stale.
C12_Witness ==
    /\ next_timer_handle = 2
    /\ unscheduled = {1}
    /\ timers = <<>>
    /\ delivered = {}
    /\ expected_event_id = 2
    /\ \E r \in inflight : r.id = 1 /\ r.target = 1
\* Has the non-interval JS timer x fired?
FiredTimeout(x) ==
    \E i \in 1..Len(invoked) : invoked[i].js = x /\ ~invoked[i].is_interval

\* C13: cancelling a handle without a pending entry changes nothing in either
\* layer: unschedule_callback(h) for an absent h and
\* clear_timeout_or_interval(x) for an unknown or already cleared x leave the
\* entries, the mappings and expected_event_id alone and send no request;
\* clearing a timeout that has fired removes its mapping and nothing else.
C13_CancelAbsentIsNoOp ==
    [][/\ \A h \in 1..MaxHandle :
             (h \notin Handles(timers) /\ UnscheduleCallback(h))
             => UNCHANGED <<progVars, inflight>>
       /\ \A x \in 1..MaxHandle :
             (x \notin DOMAIN active_timers /\ ClearTimeoutOrInterval(x))
             => UNCHANGED <<progVars, inflight>>
       /\ \A x \in 1..MaxHandle :
             (x \in DOMAIN active_timers /\ FiredTimeout(x)
                 /\ ClearTimeoutOrInterval(x))
             => /\ active_timers' = MapRemove(active_timers, x)
                /\ UNCHANGED <<timers, timers_to_run, expected_event_id,
                               inflight, next_timer_handle, suspended_since,
                               suspension_offset>>]_vars

\* Timeout 1 fired alone and was cleared from the event loop afterwards; the
\* mapping is gone, while another JS timer is still pending and the request
\* armed for it is still the live one.
C13_Witness ==
    /\ pc = "idle"
    /\ Len(invoked) = 1
    /\ invoked[1].js = 1
    /\ ~invoked[1].is_interval
    /\ 1 \in cleared
    /\ 1 \notin self_cleared
    /\ 1 \notin DOMAIN active_timers
    /\ \E i \in 1..Len(timers) :
          /\ timers[i].callback.type = "JsTimer"
          /\ timers[i].callback.handle \in DOMAIN active_timers
    /\ \E r \in inflight : r.id = expected_event_id /\ r.target = Last(timers).handle
\* C14: suspend() panics exactly when the queue is suspended already and
\* resume() exactly when it is not; a call that succeeds flips
\* suspended_since, which starts as None and which nothing else changes, so
\* the successful calls alternate: suspend, resume, suspend, ...
C14_SuspendResumeAlternate ==
    [][/\ Suspend =>
             /\ (suspended_since # None) <=> (pc' = "panicked")
             /\ pc' = "panicked" => (panicked' = "suspend_assert" /\ UNCHANGED suspended_since)
             /\ pc' # "panicked" => (suspended_since = None /\ suspended_since' # None)
       /\ Resume =>
             /\ (suspended_since = None) <=> (pc' = "panicked")
             /\ pc' = "panicked" => (panicked' = "resume_assert" /\ UNCHANGED suspended_since)
             /\ pc' # "panicked" => (suspended_since # None /\ suspended_since' = None)
       /\ suspended_since' # suspended_since =>
             \/ (suspended_since = None /\ Suspend)
             \/ (suspended_since # None /\ Resume)]_vars

\* suspend and resume succeeded in turn (time passed while suspended), and a
\* second resume, on the queue that was no longer suspended, panicked
C14_WitnessResume ==
    /\ panicked = "resume_assert"
    /\ suspended_since = None
    /\ suspension_offset >= 1

\* A second suspend() on the suspended queue panicked
C14_Witness ==
    /\ panicked = "suspend_assert"
    /\ suspended_since # None
    /\ g_suspends = 2
\* C15: suspend() and resume() leave the pending entries as they are; while
\* the queue is suspended no operation sends a request and no notification
\* gets a callback invoked; resume() sends exactly one request, for the
\* earliest entry, if the queue holds entries and none if it is empty.
C15_SuspensionDefersRequests ==
    [][/\ (suspended_since = None) # (suspended_since' = None)
             => timers' = timers
       /\ suspended_since' # None
             => (inflight' \subseteq inflight /\ invoked' = invoked /\ pc' # "callback")
       /\ (suspended_since # None /\ suspended_since' = None)
             => IF timers = <<>>
                THEN inflight' = inflight
                ELSE \E r \in inflight' \ inflight :
                        /\ inflight' = inflight \cup {r}
                        /\ r.id = expected_event_id'
                        /\ r.target = Last(timers).handle]_vars

\* Entry 1 was scheduled (request 1), the queue suspended, request 1 arrived
\* and was dropped, entry 2 was scheduled during the suspension without a
\* request; a while later resume() sent the one request now in flight.
C15_Witness ==
    /\ pc = "idle"
    /\ suspended_since = None
    /\ suspension_offset = 1
    /\ Len(timers) = 2
    /\ invoked = <<>>
    /\ delivered = {[id |-> 1, target |-> 1, accepted |-> FALSE]}
    /\ Cardinality(inflight) = 1
    /\ \E r \in inflight : r.id = 3 /\ r.id = expected_event_id
                           /\ r.target = Last(timers).handle
\* C16: schedule_callback hands out strictly increasing one-shot handles and
\* never the same one twice; an entry is out of the queue before its callback
\* runs, never gets back in, and so each entry's callback runs at most once.
C16_HandlesFreshInvokedOnce ==
    /\ [](/\ Cardinality(Handles(timers)) = Len(timers)
          /\ \A h \in Handles(timers) \cup Handles(timers_to_run) :
                h < next_timer_handle
          /\ Handles(timers) \cap Handles(timers_to_run) = {}
          /\ \A i, j \in 1..Len(invoked) :
                i # j => invoked[i].handle # invoked[j].handle
          /\ \A i \in 1..Len(invoked) :
                invoked[i].handle \notin Handles(timers) \cup Handles(timers_to_run))
    /\ [][/\ next_timer_handle' >= next_timer_handle
          /\ Handles(timers') \ Handles(timers) \subseteq {next_timer_handle}
          /\ next_timer_handle \in Handles(timers')
                => next_timer_handle' = next_timer_handle + 1]_vars

\* Entries 1 and 2 were run by two fire_timer calls, once each, and entry 3,
\* scheduled since, waits in the queue.
C16_Witness ==
    /\ pc = "idle"
    /\ Len(invoked) = 2
    /\ {invoked[1].handle, invoked[2].handle} = {1, 2}
    /\ Cardinality({d \in delivered : d.accepted}) = 2
    /\ Handles(timers) = {3}
    /\ next_timer_handle = 4
\* C17: no wake-up is lost: whenever the queue holds entries, is not suspended
\* and no fire_timer call is in progress, exactly one request in flight
\* carries expected_event_id, and it was sent for the entry that is now the
\* earliest; scheduling or cancelling an entry that is not the earliest
\* leaves that request alone.
C17_NoLostWakeup ==
    (timers # <<>> /\ suspended_since = None /\ pc = "idle")
    => /\ Cardinality({r \in inflight : r.id = expected_event_id}) = 1
       /\ \A r \in inflight :
             r.id = expected_event_id => r.target = Last(timers).handle

\* Entry 1 (earliest) armed request 1; entries 2 and 3 with later deadlines
\* were scheduled and entry 2 cancelled: request 1 is still the live one.
C17_Witness ==
    /\ pc = "idle"
    /\ suspended_since = None
    /\ Handles(timers) = {1, 3}
    /\ Last(timers).handle = 1
    /\ unscheduled = {2}
    /\ expected_event_id = 1
    /\ \E r \in inflight : r.id = 1 /\ r.target = 1
\* Has one-shot entry h been invoked?
WasInvoked(h) == \E i \in 1..Len(invoked) : invoked[i].handle = h

\* C18: with a scheduler that answers every request, a clock that advances
\* and every suspend() followed by a resume(), every entry that is scheduled
\* and never cancelled is eventually invoked.
C18_EveryEntryEventuallyInvoked ==
    \A h \in 1..LiveMaxHandle :
        (h \in Handles(timers)) ~> (WasInvoked(h) \/ h \in unscheduled)

\* The part of C18 that holds: an entry is invoked or cancelled unless the
\* script thread panics first
C18_InvokedUnlessPanicked ==
    \A h \in 1..LiveMaxHandle :
        (h \in Handles(timers))
            ~> (WasInvoked(h) \/ h \in unscheduled \/ pc = "panicked")
\* C19: the nesting level is 0 whenever no JS timer callback is running, and
\* an interval is rescheduled after the reset: at every repetition the new
\* task gets the delay max(0, requested), not the 4 ms lower bound, and
\* nesting level 1, at whatever depth the interval was first registered.
C19_IntervalRearmedAtDepthZero ==
    /\ pc = "idle" => nesting_level = 0
    /\ \A e \in Pending :
          (e.callback.type = "JsTimer" /\ e.callback.is_interval
              /\ InvCount(e.callback.handle) >= 1)
          => /\ e.g_duration = Max(0, e.callback.g_timeout)
             /\ e.scheduled_for - e.g_start = Max(0, e.callback.g_timeout)
             /\ e.callback.nesting_level = 1
             /\ e.callback.g_depth = 0
    /\ (pc = "callback" /\ running.callback.is_interval
           /\ InvCount(running.callback.handle) >= 2)
       => nesting_level = 1

\* Six nested timeouts ran; the sixth registered interval 7 at depth 6, which
\* got the 4 ms lower bound; it has run twice since, and its third task is
\* pending with delay 0 and nesting level 1.
C19_Witness ==
    /\ pc = "idle"
    /\ Len(invoked) = 8
    /\ \A i \in 1..6 : invoked[i].js = i
    /\ invoked[7].js = 7 /\ invoked[7].is_interval
    /\ invoked[7].g_depth = 6
    /\ invoked[7].g_due = 4
    /\ invoked[8].js = 7 /\ invoked[8].g_depth = 0
    /\ invoked[8].g_due = 4
    /\ \E e \in Pending :
          /\ e.callback.handle = 7
          /\ e.callback.g_timeout = 0
          /\ e.g_duration = 0
          /\ e.callback.nesting_level = 1
====
